---- MODULE Spec2Model ----
(***************************************************************************)
(* c2pa-testfile-maker: the CLI run (src/main.rs), the signing helpers of  *)
(* tests/common/mod.rs and the integration tests that run them under the   *)
(* parallel test runner (tests/integration_tests.rs).                      *)
(*                                                                         *)
(* Strings and paths are sequences of one-character strings, so that       *)
(* to_lowercase, Path::is_absolute, Path::join and Path::extension are     *)
(* computed rather than assumed.  The c2pa library (Builder, Reader,       *)
(* create_signer) is outside the repository: each call is an action whose  *)
(* outcome is a nondeterministic choice over what the call can return.     *)
(***************************************************************************)
EXTENDS Integers, Sequences, FiniteSets, TLC

VARIABLES
    fs,     \* what is at each output path
    fs0,    \* fs as it was when the run began (history)
    dirs,   \* the directories that exist
    pc,     \* per thread: where it is in its code
    arg,    \* per thread: what it was called with
    loc     \* per thread: its locals

vars == <<fs, fs0, dirs, pc, arg, loc>>

\* ------------------------------------------------------------------ bounds

\* Longest ingredients_from_files array drawn as an input.
MaxIngredients == 2

\* ----------------------------------------------------------------- strings

UpperChars == <<"A","B","C","D","E","F","G","H","I","J","K","L","M",
                "N","O","P","Q","R","S","T","U","V","W","X","Y","Z">>

LowerChars == <<"a","b","c","d","e","f","g","h","i","j","k","l","m",
                "n","o","p","q","r","s","t","u","v","w","x","y","z">>

\* char::to_lowercase on ASCII
ToLowerChar(c) ==
    IF \E i \in 1..26 : UpperChars[i] = c
    THEN LowerChars[CHOOSE i \in 1..26 : UpperChars[i] = c]
    ELSE c

ToUpperChar(c) ==
    IF \E i \in 1..26 : LowerChars[i] = c
    THEN UpperChars[CHOOSE i \in 1..26 : LowerChars[i] = c]
    ELSE c

\* str::to_lowercase
to_lowercase(s) == [i \in 1..Len(s) |-> ToLowerChar(s[i])]

to_uppercase(s) == [i \in 1..Len(s) |-> ToUpperChar(s[i])]

\* first character upper-cased, the rest as written
Capitalize(s) == [i \in 1..Len(s) |-> IF i = 1 THEN ToUpperChar(s[i]) ELSE s[i]]

\* ------------------------------------------------------------------- paths

\* Path::is_absolute (unix)
is_absolute(p) == Len(p) > 0 /\ p[1] = "/"

\* Path::join with a relative argument: base, separator, argument
join(base, p) ==
    IF is_absolute(p) THEN p
    ELSE IF Len(base) > 0 /\ base[Len(base)] = "/" THEN base \o p
    ELSE base \o <<"/">> \o p

\* index of the last occurrence of c in s, 0 when there is none
LastIndexOf(s, c) ==
    IF \E i \in 1..Len(s) : s[i] = c
    THEN CHOOSE i \in 1..Len(s) : s[i] = c /\ \A j \in (i+1)..Len(s) : s[j] # c
    ELSE 0

\* Path::file_name: the final component
file_name(p) == SubSeq(p, LastIndexOf(p, "/") + 1, Len(p))

\* Path::extension: the part of the file name after its last dot; none when
\* the name has no dot, or only a leading one
HasExtension(p) == LastIndexOf(file_name(p), ".") > 1

extension(p) ==
    LET n == file_name(p)
    IN  SubSeq(n, LastIndexOf(n, ".") + 1, Len(n))

\* Path::file_stem: the file name without its extension
file_stem(p) ==
    LET n == file_name(p)
    IN  IF HasExtension(p) THEN SubSeq(n, 1, LastIndexOf(n, ".") - 1) ELSE n


\* ------------------------------------------------------- signing algorithm

S_es256 == <<"e","s","2","5","6">>
S_es384 == <<"e","s","3","8","4">>
S_es512 == <<"e","s","5","1","2">>
S_ps256 == <<"p","s","2","5","6">>
S_ps384 == <<"p","s","3","8","4">>
S_ps512 == <<"p","s","5","1","2">>
S_ed25519 == <<"e","d","2","5","5","1","9">>

\* parse_signing_algorithm matching the name as written
parse_signing_algorithm_CaseSensitive(alg) ==
    CASE alg = S_es256 -> [ok |-> TRUE, alg |-> "Es256"]
      [] alg = S_es384 -> [ok |-> TRUE, alg |-> "Es384"]
      [] alg = S_es512 -> [ok |-> TRUE, alg |-> "Es512"]
      [] alg = S_ps256 -> [ok |-> TRUE, alg |-> "Ps256"]
      [] alg = S_ps384 -> [ok |-> TRUE, alg |-> "Ps384"]
      [] alg = S_ps512 -> [ok |-> TRUE, alg |-> "Ps512"]
      [] alg = S_ed25519 -> [ok |-> TRUE, alg |-> "Ed25519"]
      [] OTHER -> [ok |-> FALSE, alg |-> "none"]

\* parse_signing_algorithm: the lower-cased name matched against the seven
\* arms; SigningAlg is named by its variant, "none" stands for the bail!
parse_signing_algorithm(alg) ==
    LET l == to_lowercase(alg)
    IN  CASE l = S_es256 -> [ok |-> TRUE, alg |-> "Es256"]
          [] l = S_es384 -> [ok |-> TRUE, alg |-> "Es384"]
          [] l = S_es512 -> [ok |-> TRUE, alg |-> "Es512"]
          [] l = S_ps256 -> [ok |-> TRUE, alg |-> "Ps256"]
          [] l = S_ps384 -> [ok |-> TRUE, alg |-> "Ps384"]
          [] l = S_ps512 -> [ok |-> TRUE, alg |-> "Ps512"]
          [] l = S_ed25519 -> [ok |-> TRUE, alg |-> "Ed25519"]
          [] OTHER -> [ok |-> FALSE, alg |-> "none"]

\* --------------------------------------------------------------- ingredients

E_jpg == <<"j","p","g">>
E_jpeg == <<"j","p","e","g">>
E_png == <<"p","n","g">>
E_gif == <<"g","i","f">>
E_webp == <<"w","e","b","p">>
E_tiff == <<"t","i","f","f">>
E_tif == <<"t","i","f">>
E_bmp == <<"b","m","p">>

\* the match with a default arm in place of `_ => return None`
extension_to_mime_Default(ext) ==
    LET l == to_lowercase(ext)
    IN  CASE l = E_jpg \/ l = E_jpeg -> "image/jpeg"
          [] l = E_png -> "image/png"
          [] l = E_gif -> "image/gif"
          [] l = E_webp -> "image/webp"
          [] l = E_tiff \/ l = E_tif -> "image/tiff"
          [] l = E_bmp -> "image/bmp"
          [] OTHER -> "application/octet-stream"

\* extension_to_mime: Option<&str>, "none" for None
extension_to_mime(ext) ==
    LET l == to_lowercase(ext)
    IN  CASE l = E_jpg \/ l = E_jpeg -> "image/jpeg"
          [] l = E_png -> "image/png"
          [] l = E_gif -> "image/gif"
          [] l = E_webp -> "image/webp"
          [] l = E_tiff \/ l = E_tif -> "image/tiff"
          [] l = E_bmp -> "image/bmp"
          [] OTHER -> "none"

R_parentof == <<"p","a","r","e","n","t","o","f">>
R_componentof == <<"c","o","m","p","o","n","e","n","t","o","f">>

\* the match with a default arm in place of the bail!
parse_relationship_Lenient(rel) ==
    LET l == to_lowercase(rel)
    IN  CASE l = R_parentof -> "ParentOf"
          [] OTHER -> "ComponentOf"

\* the match on rel.to_lowercase() of process_ingredients; "none" for the bail!
parse_relationship(rel) ==
    LET l == to_lowercase(rel)
    IN  CASE l = R_parentof -> "ParentOf"
          [] l = R_componentof -> "ComponentOf"
          [] OTHER -> "none"

\* Path::parent: the path without its final component
parent(p) ==
    LET i == LastIndexOf(p, "/")
    IN  IF i = 0 THEN <<>>
        ELSE IF i = 1 THEN <<"/">>
        ELSE SubSeq(p, 1, i - 1)

\* Path::parent is None for the root and for the empty path
HasParent(p) == p # <<>> /\ p # <<"/">>

\* Path::file_name is None for a path that ends in ".." (or has no component)
HasFileName(p) == file_name(p) # <<>> /\ file_name(p) # <<".", ".">>

\* ------------------------------------------------------------- environment

\* ingredients_base_dir handed to sign_file_with_manifest_and_ingredients
BaseDir == <<"/","b">>

\* The ingredient files on disk: readable says whether File::open succeeds,
\* good whether Ingredient::from_stream accepts the content.
IngredientFiles ==
    { [path |-> <<"/","b","/","a",".","j","p","g">>,      readable |-> TRUE,  good |-> TRUE],
      [path |-> <<"/","x","/","b",".","P","N","G">>,      readable |-> TRUE,  good |-> TRUE],
      [path |-> <<"/","b","/","r","a","w">>,        readable |-> TRUE,  good |-> TRUE],
      [path |-> <<"/","b","/","c",".","x","y","z">>,      readable |-> TRUE,  good |-> TRUE],
      [path |-> <<"/","b","/","b","a","d",".","j","p","g">>,    readable |-> TRUE,  good |-> FALSE],
      [path |-> <<"/","b","/","d",".","j","p","e","g">>, readable |-> TRUE, good |-> TRUE],
      [path |-> <<"/","b","/","e",".","g","i","f">>, readable |-> TRUE, good |-> TRUE],
      [path |-> <<"/","b","/","f",".","w","e","b","p">>, readable |-> TRUE, good |-> TRUE],
      [path |-> <<"/","b","/","g",".","t","i","f","f">>, readable |-> TRUE, good |-> TRUE],
      [path |-> <<"/","b","/","h",".","T","I","F">>, readable |-> TRUE, good |-> TRUE],
      [path |-> <<"/","b","/","i",".","B","m","p">>, readable |-> TRUE, good |-> TRUE],
      [path |-> <<"/","b","/",".","p","n","g">>, readable |-> TRUE, good |-> TRUE],
      [path |-> <<"/","b","/","l","o","c","k","e","d",".","j","p","g">>, readable |-> FALSE, good |-> TRUE] }

\* Path::exists on an ingredient path
IngredientExists(p) == \E f \in IngredientFiles : f.path = p

IngredientFileAt(p) == CHOOSE f \in IngredientFiles : f.path = p

\* One entry of ingredients_from_files; has_* is whether the JSON field is
\* there (and a string).
IngredientDef(has_path, file_path, has_title, title, has_rel, rel) ==
    [has_path |-> has_path, file_path |-> file_path,
     has_title |-> has_title, title |-> title,
     has_rel |-> has_rel, relationship |-> rel]

IngredientDefs ==
    { IngredientDef(TRUE,  <<"a",".","j","p","g">>,      TRUE,  "Parent", TRUE,  <<"p","a","r","e","n","t","O","f">>),
      IngredientDef(TRUE,  <<"/","x","/","b",".","P","N","G">>,   FALSE, "",       TRUE,  <<"C","O","M","P","O","N","E","N","T","O","F">>),
      IngredientDef(TRUE,  <<"a",".","j","p","g">>,      FALSE, "",       FALSE, <<>>),
      IngredientDef(TRUE,  <<"g","o","n","e",".","p","n","g">>,   TRUE,  "Gone",   TRUE,  <<"p","a","r","e","n","t","O","f">>),
      IngredientDef(TRUE,  <<"a",".","j","p","g">>,      TRUE,  "BadRel", TRUE,  <<"i","n","p","u","t","T","o">>),
      IngredientDef(TRUE,  <<"/","x","/","g","o","n","e",".","j","p","g">>, FALSE, "",      TRUE,  <<"i","n","p","u","t","T","o">>),
      IngredientDef(FALSE, <<>>,           TRUE,  "NoPath", TRUE,  <<"p","a","r","e","n","t","O","f">>),
      IngredientDef(TRUE,  <<"r","a","w">>,        FALSE, "",       FALSE, <<>>),
      IngredientDef(TRUE,  <<"c",".","x","y","z">>,      FALSE, "",       TRUE,  <<"c","o","m","p","o","n","e","n","t","O","f">>),
      IngredientDef(TRUE,  <<"b","a","d",".","j","p","g">>,    FALSE, "",       TRUE,  <<"s","o","u","r","c","e","O","f">>),
      IngredientDef(TRUE,  <<"d",".","j","p","e","g">>, FALSE, "", FALSE, <<>>),
      IngredientDef(TRUE,  <<"e",".","g","i","f">>, FALSE, "", FALSE, <<>>),
      IngredientDef(TRUE,  <<"f",".","w","e","b","p">>, FALSE, "", FALSE, <<>>),
      IngredientDef(TRUE,  <<"g",".","t","i","f","f">>, FALSE, "", FALSE, <<>>),
      IngredientDef(TRUE,  <<"h",".","T","I","F">>, FALSE, "", FALSE, <<>>),
      IngredientDef(TRUE,  <<"i",".","B","m","p">>, FALSE, "", FALSE, <<>>),
      IngredientDef(TRUE,  <<".","p","n","g">>, FALSE, "", FALSE, <<>>),
      IngredientDef(TRUE,  <<"l","o","c","k","e","d",".","j","p","g">>, FALSE, "",       FALSE, <<>>) }

\* sequences of ingredient declarations up to MaxIngredients long
RECURSIVE DefSeqs(_)
DefSeqs(n) ==
    IF n = 0 THEN { <<>> }
    ELSE LET shorter == DefSeqs(n - 1)
         IN  shorter \cup { Append(s, d) : s \in { x \in shorter : Len(x) = n - 1 }, d \in IngredientDefs }

\* ------------------------------------------------------ process_ingredients

NoIngredient == [title |-> "", format |-> "none", relationship |-> "none", source |-> <<>>]

\* the error made from file_path_str, the path as declared
ResolveOne_DeclaredPath(def, base) ==
    LET file_path == IF is_absolute(def.file_path) THEN def.file_path
                     ELSE join(base, def.file_path)
        fail(e, o) == [err |-> e, path |-> def.file_path, opened |-> o, ingredient |-> NoIngredient]
    IN  IF ~def.has_path
        THEN [err |-> "MissingFilePath", path |-> <<>>, opened |-> FALSE, ingredient |-> NoIngredient]
        ELSE IF ~IngredientExists(file_path) THEN fail("IngredientNotFound", FALSE)
        ELSE IF ~IngredientFileAt(file_path).readable THEN fail("OpenFailed", TRUE)
        ELSE IF ~HasExtension(file_path) THEN fail("NoExtension", TRUE)
        ELSE IF extension_to_mime(extension(file_path)) = "none" THEN fail("UnsupportedFormat", TRUE)
        ELSE IF ~IngredientFileAt(file_path).good THEN fail("FromStreamFailed", TRUE)
        ELSE IF def.has_rel /\ parse_relationship(def.relationship) = "none"
             THEN fail("InvalidRelationship", TRUE)
        ELSE [err |-> "none", path |-> file_path, opened |-> TRUE,
              ingredient |-> [title |-> IF def.has_title THEN def.title ELSE "",
                              format |-> extension_to_mime(extension(file_path)),
                              relationship |-> IF def.has_rel
                                               THEN parse_relationship(def.relationship)
                                               ELSE "default",
                              source |-> file_path]]

\* The body of the for loop of process_ingredients for one declaration, up to
\* add_ingredient: the first check that fails decides the error.  opened says
\* whether File::open was reached; path is the path that was tried.
ResolveOne(def, base) ==
    LET file_path == IF is_absolute(def.file_path) THEN def.file_path
                     ELSE join(base, def.file_path)
        fail(e, o) == [err |-> e, path |-> file_path, opened |-> o, ingredient |-> NoIngredient]
    IN  IF ~def.has_path
        THEN [err |-> "MissingFilePath", path |-> <<>>, opened |-> FALSE, ingredient |-> NoIngredient]
        ELSE IF ~IngredientExists(file_path) THEN fail("IngredientNotFound", FALSE)
        ELSE IF ~IngredientFileAt(file_path).readable THEN fail("OpenFailed", TRUE)
        ELSE IF ~HasExtension(file_path) THEN fail("NoExtension", TRUE)
        ELSE IF extension_to_mime(extension(file_path)) = "none" THEN fail("UnsupportedFormat", TRUE)
        ELSE IF ~IngredientFileAt(file_path).good THEN fail("FromStreamFailed", TRUE)
        ELSE IF def.has_rel /\ parse_relationship(def.relationship) = "none"
             THEN fail("InvalidRelationship", TRUE)
        ELSE [err |-> "none", path |-> file_path, opened |-> TRUE,
              ingredient |-> [title |-> IF def.has_title THEN def.title ELSE "",
                              format |-> extension_to_mime(extension(file_path)),
                              relationship |-> IF def.has_rel
                                               THEN parse_relationship(def.relationship)
                                               ELSE "default",
                              source |-> file_path]]

\* ------------------------------------------------------------------- state

\* The test threads of one run of the test binary (cargo runs the #[test]
\* functions of a binary on parallel threads); a CLI run or a single helper
\* call uses thread 1 and leaves thread 2 off.
Threads == {1, 2}

NoManifest == [title |-> "", assertions |-> <<>>, ingredients |-> <<>>]

\* What is at an output path: absent, a directory, an unsigned asset, a
\* signed asset (its manifest, and the thread and job that wrote it; thread 0
\* is an earlier run) or a file left by a sign_file that failed part-way.
Entry(kind, by, job, manifest) ==
    [kind |-> kind, by |-> by, job |-> job, manifest |-> manifest]

AbsentEntry == Entry("absent", 0, 0, NoManifest)
DirEntry == Entry("dir", 0, 0, NoManifest)
AssetEntry == Entry("asset", 0, 0, NoManifest)
OldSignedEntry == Entry("signed", 0, 0, [title |-> "old", assertions |-> <<>>, ingredients |-> <<>>])

\* A manifest configuration file: whether it can be read, whether it is JSON,
\* whether Builder::from_json accepts it, and the fields of the configuration.
ManifestFile(exists, json_ok, def_ok, title, assertions, iff_present, iff) ==
    [exists |-> exists, json_ok |-> json_ok, def_ok |-> def_ok, title |-> title,
     assertions |-> assertions, iff_present |-> iff_present, iff |-> iff]

MissingManifest == ManifestFile(FALSE, FALSE, FALSE, "", <<>>, FALSE, <<>>)
NotJsonManifest == ManifestFile(TRUE, FALSE, FALSE, "", <<>>, FALSE, <<>>)
RejectedManifest == ManifestFile(TRUE, TRUE, FALSE, "", <<>>, FALSE, <<>>)

AssertionSeqs == { <<"c2pa.asset-type">>, <<"c2pa.actions", "c2pa.asset-type">> }

\* the manifest configurations drawn as inputs
ManifestInputs ==
    { MissingManifest, NotJsonManifest, RejectedManifest }
    \cup { ManifestFile(TRUE, TRUE, TRUE, "T", a, FALSE, <<>>) : a \in AssertionSeqs }
    \cup { ManifestFile(TRUE, TRUE, TRUE, "T", a, TRUE, s) :
             a \in AssertionSeqs, s \in DefSeqs(MaxIngredients) }

\* one call of a signing helper by a test
Job(manifest, input, input_exists, out, with_ing, base) ==
    [manifest |-> manifest, input |-> input, input_exists |-> input_exists,
     out |-> out, with_ing |-> with_ing, base |-> base]

\* the arguments of the CLI (struct Cli) and what they name on disk
Cli(manifest, input, input_exists, output, cert_ok, key_ok, algorithm) ==
    [manifest |-> manifest, input |-> input, input_exists |-> input_exists,
     output |-> output, cert_ok |-> cert_ok, key_ok |-> key_ok,
     algorithm |-> algorithm]

NoCli == Cli(MissingManifest, <<>>, FALSE, <<>>, FALSE, FALSE, <<>>)

NoBuilder == [made |-> FALSE, title |-> "", assertions |-> <<>>, ingredients |-> <<>>]

\* the locals of a run at its start
InitLoc ==
    [j |-> 1, have_json |-> FALSE, builder |-> NoBuilder, idx |-> 0,
     resolved |-> <<>>, io |-> {}, sign_calls |-> 0, result |-> "running",
     err_path |-> <<>>, output_path |-> <<>>, signing_alg |-> "none",
     verify |-> "none", seen |-> AbsentEntry,
     success_count |-> 0, total_count |-> 0, printed |-> FALSE]

CurJob(t) == arg[t].jobs[loc[t].j]

\* Builder::from_json: the builder holds the title and the assertions of the
\* configuration; ingredients_from_files is not a field of the definition
BuilderFromJson(m) ==
    [made |-> TRUE, title |-> m.title, assertions |-> m.assertions, ingredients |-> <<>>]

\* the manifest sign_file embeds: what the builder holds
ManifestOf(b) ==
    [title |-> b.title, assertions |-> b.assertions, ingredients |-> b.ingredients]

\* What Builder::sign_file can do at the output path.  It writes to the path
\* it is given: on success the signed asset is there; a failure before the
\* destination is opened leaves the path as it was, a later one leaves the
\* file it had begun.  Without a source asset, or with a directory at the
\* destination, it fails before writing.
SignOutcomes(input_exists, e) ==
    IF ~input_exists \/ e.kind = "dir" THEN {"fail_clean"}
    ELSE {"ok", "fail_clean", "fail_partial"}

SignEntry(o, e, t, j, b) ==
    CASE o = "ok" -> Entry("signed", t, j, ManifestOf(b))
      [] o = "fail_partial" -> Entry("partial", t, j, NoManifest)
      [] OTHER -> e

\* fs::remove_file at a path that exists: a directory is never removed, a
\* file is removed unless the call fails (permissions)
RemoveOutcomes(e) ==
    IF e.kind = "dir" THEN {"fail"} ELSE {"ok", "fail"}

\* ------------------------------------------- tests/common/mod.rs: helpers

TestThread(t) == arg[t].kind = "test"

\* a helper call ends with Err(e): the `?` of the caller, or the Err arm of
\* the batch test, counts the job as run and not as a success
FailJob(l, e) == [l EXCEPT !.result = e, !.total_count = @ + 1]

\* sign_file_with_manifest[_and_ingredients]: if output_path.exists() {
\* fs::remove_file(output_path)? }
RemoveOutput(t) ==
    /\ TestThread(t)
    /\ pc[t] = "h_remove"
    /\ LET out == CurJob(t).out
       IN  IF fs[out].kind = "absent"
           THEN /\ pc' = [pc EXCEPT ![t] = "h_read"]
                /\ UNCHANGED <<fs, loc>>
           ELSE \E o \in RemoveOutcomes(fs[out]) :
                  IF o = "ok"
                  THEN /\ fs' = [fs EXCEPT ![out] = AbsentEntry]
                       /\ pc' = [pc EXCEPT ![t] = "h_read"]
                       /\ UNCHANGED loc
                  ELSE /\ loc' = [loc EXCEPT ![t] = FailJob(@, "RemoveFailed")]
                       /\ pc' = [pc EXCEPT ![t] = "t_next"]
                       /\ UNCHANGED fs
    /\ UNCHANGED <<fs0, dirs, arg>>

\* let manifest_json = fs::read_to_string(manifest_path)?
ReadManifest(t) ==
    /\ TestThread(t)
    /\ pc[t] = "h_read"
    /\ IF CurJob(t).manifest.exists
       THEN /\ loc' = [loc EXCEPT ![t].have_json = TRUE,
                                  ![t].io = @ \cup {"read_manifest"}]
            /\ pc' = [pc EXCEPT ![t] = "h_from_json"]
       ELSE /\ loc' = [loc EXCEPT ![t] = FailJob(@, "ReadManifestFailed")]
            /\ pc' = [pc EXCEPT ![t] = "t_next"]
    /\ UNCHANGED <<fs, fs0, dirs, arg>>

\* let mut builder = Builder::from_json(&manifest_json)?; then, in
\* sign_file_with_manifest_and_ingredients only, process_ingredients
FromJson(t) ==
    /\ TestThread(t)
    /\ pc[t] = "h_from_json"
    /\ LET m == CurJob(t).manifest
       IN  IF m.json_ok /\ m.def_ok
           THEN /\ loc' = [loc EXCEPT ![t].builder = BuilderFromJson(m)]
                /\ pc' = [pc EXCEPT ![t] = IF CurJob(t).with_ing
                                           THEN "h_ingredients" ELSE "h_sign"]
           ELSE /\ loc' = [loc EXCEPT ![t] = FailJob(@, "FromJsonFailed")]
                /\ pc' = [pc EXCEPT ![t] = "t_next"]
    /\ UNCHANGED <<fs, fs0, dirs, arg>>

\* the iteration with `continue` where the missing file is reported
ProcessIngredientsStep_SkipNotFound(l, defs, base) ==
    LET i == l.idx + 1
        r == ResolveOne(defs[i], base)
        tried == [l EXCEPT !.idx = i, !.resolved = Append(@, i),
                           !.io = IF r.opened THEN @ \cup {"read_ingredient"} ELSE @]
    IN  IF r.err = "none"
        THEN [tried EXCEPT !.builder.ingredients = Append(@, r.ingredient)]
        ELSE IF r.err = "IngredientNotFound" THEN tried
        ELSE [tried EXCEPT !.result = r.err, !.err_path = r.path]

\* the iteration over the declarations from the last to the first
ProcessIngredientsStep_Reversed(l, defs, base) ==
    LET i == Len(defs) - l.idx
        r == ResolveOne(defs[i], base)
        tried == [l EXCEPT !.idx = @ + 1, !.resolved = Append(@, i),
                           !.io = IF r.opened THEN @ \cup {"read_ingredient"} ELSE @]
    IN  IF r.err = "none"
        THEN [tried EXCEPT !.builder.ingredients = Append(@, r.ingredient)]
        ELSE [tried EXCEPT !.result = r.err, !.err_path = r.path]

\* One iteration of the for loop of process_ingredients on the locals l: the
\* next declaration is resolved; an error returns it (the `?` and the bail!s),
\* otherwise builder.add_ingredient(ingredient) and on to the next.
ProcessIngredientsStep(l, defs, base) ==
    LET i == l.idx + 1
        r == ResolveOne(defs[i], base)
        tried == [l EXCEPT !.idx = i, !.resolved = Append(@, i),
                           !.io = IF r.opened THEN @ \cup {"read_ingredient"} ELSE @]
    IN  IF r.err = "none"
        THEN [tried EXCEPT !.builder.ingredients = Append(@, r.ingredient)]
        ELSE [tried EXCEPT !.result = r.err, !.err_path = r.path]

\* process_ingredients(&mut builder, &manifest_json, ingredients_base_dir)?:
\* without an ingredients_from_files array, or past its last entry, Ok(())
ProcessIngredients(t) ==
    /\ TestThread(t)
    /\ pc[t] = "h_ingredients"
    /\ LET m == CurJob(t).manifest
       IN  IF ~m.json_ok
           THEN /\ loc' = [loc EXCEPT ![t] = FailJob(@, "JsonParseFailed")]
                /\ pc' = [pc EXCEPT ![t] = "t_next"]
           ELSE IF ~m.iff_present \/ loc[t].idx >= Len(m.iff)
           THEN /\ pc' = [pc EXCEPT ![t] = "h_sign"]
                /\ UNCHANGED loc
           ELSE LET l2 == ProcessIngredientsStep(loc[t], m.iff, CurJob(t).base)
                IN  IF l2.result = "running"
                    THEN /\ loc' = [loc EXCEPT ![t] = l2]
                         /\ UNCHANGED pc
                    ELSE /\ loc' = [loc EXCEPT ![t] = FailJob(l2, l2.result)]
                         /\ pc' = [pc EXCEPT ![t] = "t_next"]
    /\ UNCHANGED <<fs, fs0, dirs, arg>>

\* sign_file called again on the same builder when it returned an error
SignFile_Retry(t) ==
    /\ TestThread(t)
    /\ pc[t] = "h_sign"
    /\ LET out == CurJob(t).out
       IN  \E o \in SignOutcomes(CurJob(t).input_exists, fs[out]) :
             /\ fs' = [fs EXCEPT ![out] = SignEntry(o, @, t, loc[t].j, loc[t].builder)]
             /\ IF o = "ok"
                THEN /\ loc' = [loc EXCEPT ![t].sign_calls = @ + 1,
                                           ![t].io = @ \cup {"sign_file"},
                                           ![t].result = "Ok"]
                     /\ pc' = [pc EXCEPT ![t] = "t_verify"]
                ELSE /\ loc' = [loc EXCEPT ![t].sign_calls = @ + 1,
                                           ![t].io = @ \cup {"sign_file"}]
                     /\ pc' = [pc EXCEPT ![t] = IF loc[t].sign_calls = 0
                                                THEN "h_sign" ELSE "t_next"]
    /\ UNCHANGED <<fs0, dirs, arg>>

\* let signer = test_signer(); builder.sign_file(&signer, input_path,
\* output_path)?; Ok(())
SignFile(t) ==
    /\ TestThread(t)
    /\ pc[t] = "h_sign"
    /\ LET out == CurJob(t).out
       IN  \E o \in SignOutcomes(CurJob(t).input_exists, fs[out]) :
             /\ fs' = [fs EXCEPT ![out] = SignEntry(o, @, t, loc[t].j, loc[t].builder)]
             /\ IF o = "ok"
                THEN /\ loc' = [loc EXCEPT ![t].sign_calls = @ + 1,
                                           ![t].io = @ \cup {"sign_file"},
                                           ![t].result = "Ok"]
                     /\ pc' = [pc EXCEPT ![t] = "t_verify"]
                ELSE /\ loc' = [loc EXCEPT ![t] =
                                  FailJob([@ EXCEPT !.sign_calls = @ + 1,
                                                    !.io = @ \cup {"sign_file"}],
                                          "SignFailed")]
                     /\ pc' = [pc EXCEPT ![t] = "t_next"]
    /\ UNCHANGED <<fs0, dirs, arg>>

\* verify_signed_file: Reader::from_file(file_path)? and the assertion that
\* the reader has an active label; seen is what was at the path when read
VerifySignedFile(t) ==
    /\ TestThread(t)
    /\ pc[t] = "t_verify"
    /\ LET e == fs[CurJob(t).out]
           ok == e.kind = "signed"
       IN  loc' = [loc EXCEPT ![t].seen = e,
                              ![t].verify = IF ok THEN "Ok" ELSE "Err",
                              ![t].success_count = IF ok THEN @ + 1 ELSE @,
                              ![t].total_count = @ + 1]
    /\ pc' = [pc EXCEPT ![t] = "t_next"]
    /\ UNCHANGED <<fs, fs0, dirs, arg>>

\* the test goes on to its next combination, or ends
NextJob(t) ==
    /\ TestThread(t)
    /\ pc[t] = "t_next"
    /\ IF loc[t].j < Len(arg[t].jobs)
       THEN /\ loc' = [loc EXCEPT ![t] =
                         [InitLoc EXCEPT !.j = loc[t].j + 1,
                                         !.success_count = loc[t].success_count,
                                         !.total_count = loc[t].total_count]]
            /\ pc' = [pc EXCEPT ![t] = "h_remove"]
       ELSE /\ pc' = [pc EXCEPT ![t] = "done"]
            /\ UNCHANGED loc
    /\ UNCHANGED <<fs, fs0, dirs, arg>>

\* ------------------------------------------------ one call of a helper

HelperInput == <<"/","t","/","D","o","g",".","j","p","g">>
HelperOut == <<"/","o","/","o","u","t",".","j","p","g">>

OffArg == [kind |-> "off", jobs |-> <<>>, cli |-> NoCli]

InitHelper ==
    /\ \E m \in ManifestInputs, ie \in BOOLEAN, wi \in BOOLEAN,
          e0 \in {AbsentEntry, AssetEntry, OldSignedEntry, DirEntry} :
         /\ arg = [t \in Threads |->
                     IF t = 1
                     THEN [kind |-> "test",
                           jobs |-> << Job(m, HelperInput, ie, HelperOut, wi, BaseDir) >>,
                           cli |-> NoCli]
                     ELSE OffArg]
         /\ fs = [p \in {HelperOut} |-> e0]
    /\ fs0 = fs
    /\ dirs = {parent(HelperOut)}
    /\ pc = [t \in Threads |-> IF t = 1 THEN "h_remove" ELSE "off"]
    /\ loc = [t \in Threads |-> InitLoc]

NextHelper ==
    \E t \in Threads :
        \/ RemoveOutput(t)
        \/ ReadManifest(t)
        \/ FromJson(t)
        \/ ProcessIngredients(t)
        \/ SignFile(t)
        \/ VerifySignedFile(t)
        \/ NextJob(t)

\* a test calls sign_file_with_manifest or
\* sign_file_with_manifest_and_ingredients once, then verify_signed_file
SpecHelper == InitHelper /\ [][NextHelper]_vars

\* ------------------------------------------------- what the claims speak of

\* the path process_ingredients tries for a declaration
AttemptedPath(d, base) == join(base, d.file_path)

\* a declaration that names a path at which there is no file
ReferencesMissingFile(d, base) ==
    d.has_path /\ ~IngredientExists(AttemptedPath(d, base))

\* a declaration whose relationship is a string other than parentof and
\* componentof, whatever its case
HasBadRelationship(d) ==
    d.has_rel /\ to_lowercase(d.relationship) \notin {R_parentof, R_componentof}

\* every check of a declaration but the relationship's passes
FileResolves(d, base) ==
    /\ d.has_path
    /\ IngredientExists(AttemptedPath(d, base))
    /\ IngredientFileAt(AttemptedPath(d, base)).readable
    /\ HasExtension(AttemptedPath(d, base))
    /\ extension_to_mime(extension(AttemptedPath(d, base))) # "none"
    /\ IngredientFileAt(AttemptedPath(d, base)).good

Resolves(d, base) == FileResolves(d, base) /\ ~HasBadRelationship(d)

\* the job is a call of sign_file_with_manifest_and_ingredients whose
\* configuration declares ingredients
DeclaresIngredients(job) ==
    job.with_ing /\ job.manifest.exists /\ job.manifest.iff_present

\* the helper call of thread t is over (it returned, or was verified)
JobOver(t) == TestThread(t) /\ pc[t] \in {"t_next", "done"}

IsError(r) == r \notin {"Ok", "running"}

\* the output path holds no file, or what it held when the run began
OutputNotWritten(out) == fs[out] = AbsentEntry \/ fs[out] = fs0[out]

\* C2: if any ingredients_from_files entry names a path that does not exist,
\* sign_file_with_manifest_and_ingredients returns an error, sign_file is
\* never invoked, and the output path holds no file written by the call: it
\* is absent, or holds what it held before (never a partial file).
C2_MissingIngredientNoOutput ==
    \A t \in Threads :
        ( /\ TestThread(t)
          /\ DeclaresIngredients(CurJob(t))
          /\ \E i \in 1..Len(CurJob(t).manifest.iff) :
                ReferencesMissingFile(CurJob(t).manifest.iff[i], CurJob(t).base) )
        => /\ loc[t].sign_calls = 0
           /\ pc[t] \notin {"h_sign", "t_verify"}
           /\ OutputNotWritten(CurJob(t).out)
           /\ (JobOver(t) => IsError(loc[t].result))

\* C2's case: a second declaration names a missing file, the first resolved,
\* and the signed output of an earlier run has been removed
C2_Witness ==
    /\ JobOver(1)
    /\ loc[1].result = "IngredientNotFound"
    /\ loc[1].resolved = <<1, 2>>
    /\ fs0[CurJob(1).out].kind = "signed"
    /\ fs[CurJob(1).out] = AbsentEntry

\* the first declaration with a bad relationship
FirstBadRelationship(defs) ==
    CHOOSE k \in 1..Len(defs) :
        HasBadRelationship(defs[k]) /\ \A i \in 1..(k - 1) : ~HasBadRelationship(defs[i])

\* C5 (as claimed): a declaration whose relationship is not parentof or
\* componentof makes the call fail with the invalid-relationship error,
\* without sign_file being invoked.
C5_AlwaysInvalidRelationshipError ==
    \A t \in Threads :
        ( /\ JobOver(t)
          /\ DeclaresIngredients(CurJob(t))
          /\ loc[t].builder.made
          /\ \E i \in 1..Len(CurJob(t).manifest.iff) :
                HasBadRelationship(CurJob(t).manifest.iff[i]) )
        => loc[t].result = "InvalidRelationship" /\ loc[t].sign_calls = 0

\* C5 (amended): such a declaration makes the call fail before any signing:
\* sign_file is not invoked and nothing is written at the output path; the
\* error is the invalid-relationship error when no earlier check fails, that
\* is when every earlier declaration resolves and the declaration's own file
\* is named, exists, opens, has a supported extension and loads.
C5_BadRelationshipFailsBeforeSigning ==
    \A t \in Threads :
        ( /\ TestThread(t)
          /\ DeclaresIngredients(CurJob(t))
          /\ \E i \in 1..Len(CurJob(t).manifest.iff) :
                HasBadRelationship(CurJob(t).manifest.iff[i]) )
        => LET defs == CurJob(t).manifest.iff
               k == FirstBadRelationship(defs)
           IN  /\ loc[t].sign_calls = 0
               /\ pc[t] \notin {"h_sign", "t_verify"}
               /\ OutputNotWritten(CurJob(t).out)
               /\ (JobOver(t) => IsError(loc[t].result))
               /\ ( /\ JobOver(t)
                    /\ loc[t].builder.made
                    /\ FileResolves(defs[k], CurJob(t).base)
                    /\ \A i \in 1..(k - 1) : Resolves(defs[i], CurJob(t).base) )
                  => loc[t].result = "InvalidRelationship"

\* C5's case: the second declaration has a bad relationship and the first
\* resolved, so the call ended with the invalid-relationship error
C5_Witness ==
    /\ JobOver(1)
    /\ DeclaresIngredients(CurJob(1))
    /\ Len(CurJob(1).manifest.iff) = 2
    /\ HasBadRelationship(CurJob(1).manifest.iff[2])
    /\ loc[1].resolved = <<1, 2>>
    /\ loc[1].result = "InvalidRelationship"
    /\ loc[1].sign_calls = 0

\* the declarations that fail to resolve
Failing(defs, base) == { i \in 1..Len(defs) : ResolveOne(defs[i], base).err # "none" }

Min(S) == CHOOSE x \in S : \A y \in S : x <= y

\* C6: the declarations are resolved in declaration order and the first
\* failing one aborts the batch: the error returned is that declaration's, no
\* later declaration is resolved or added to the builder, and sign_file is
\* not invoked.
C6_FailFastInOrder ==
    \A t \in Threads :
        ( TestThread(t) /\ DeclaresIngredients(CurJob(t)) )
        => LET defs == CurJob(t).manifest.iff
               base == CurJob(t).base
               F == Failing(defs, base)
           IN  /\ loc[t].resolved = [i \in 1..Len(loc[t].resolved) |-> i]
               /\ F # {} =>
                    /\ Len(loc[t].resolved) <= Min(F)
                    /\ Len(loc[t].builder.ingredients) < Min(F)
                    /\ loc[t].sign_calls = 0
                    /\ pc[t] \notin {"h_sign", "t_verify"}
                    /\ ( JobOver(t) /\ loc[t].builder.made ) =>
                         /\ loc[t].result = ResolveOne(defs[Min(F)], base).err
                         /\ Len(loc[t].resolved) = Min(F)
                         /\ loc[t].builder.ingredients =
                              [i \in 1..(Min(F) - 1) |-> ResolveOne(defs[i], base).ingredient]

\* C6's case: two declarations that both fail, for different reasons; the
\* call returned the error of the first and never tried the second
C6_Witness ==
    /\ JobOver(1)
    /\ DeclaresIngredients(CurJob(1))
    /\ Failing(CurJob(1).manifest.iff, CurJob(1).base) = {1, 2}
    /\ ResolveOne(CurJob(1).manifest.iff[2], CurJob(1).base).err = "InvalidRelationship"
    /\ loc[1].result = "IngredientNotFound"
    /\ loc[1].resolved = <<1>>

Range(s) == { s[i] : i \in 1..Len(s) }

\* a configuration every declaration of which resolves
ValidSpec(m, base) ==
    m.exists /\ m.json_ok /\ m.def_ok /\ \A i \in 1..Len(m.iff) : Resolves(m.iff[i], base)

\* C3: signing an asset with a valid configuration and reading the output
\* back returns a manifest with the configuration's title, its assertions in
\* the same order, and its set of ingredients.
C3_RoundTrip ==
    \A t \in Threads :
        ( /\ JobOver(t)
          /\ loc[t].verify = "Ok"
          /\ ValidSpec(CurJob(t).manifest, CurJob(t).base) )
        => LET m == CurJob(t).manifest
               back == loc[t].seen.manifest
           IN  /\ back.title = m.title
               /\ back.assertions = m.assertions
               /\ Range(back.ingredients) =
                    { ResolveOne(d, CurJob(t).base).ingredient : d \in Range(m.iff) }

\* --------------------------------------------------------- src/main.rs: main

MainThread(t) == arg[t].kind = "main"

\* Path::is_dir, and the directories create_dir_all finds in place (the
\* empty path and the root among them)
DirExists(p) ==
    \/ p = <<>>
    \/ p = <<"/">>
    \/ p \in dirs
    \/ (p \in DOMAIN fs /\ fs[p].kind = "dir")

\* the error dropped where main returns it: the run ends with Ok(())
MainFail_Swallowed(t, e) ==
    /\ loc' = [loc EXCEPT ![t].result = "Ok"]
    /\ pc' = [pc EXCEPT ![t] = "done"]

\* main returns Err(e): the run is over
MainFail(t, e) ==
    /\ loc' = [loc EXCEPT ![t].result = e]
    /\ pc' = [pc EXCEPT ![t] = "done"]

\* let manifest_json = fs::read_to_string(&cli.manifest).context(..)?
MainReadManifest(t) ==
    /\ MainThread(t)
    /\ pc[t] = "m_read_manifest"
    /\ IF arg[t].cli.manifest.exists
       THEN /\ loc' = [loc EXCEPT ![t].have_json = TRUE,
                                  ![t].io = @ \cup {"read_manifest"}]
            /\ pc' = [pc EXCEPT ![t] = "m_input_exists"]
       ELSE MainFail(t, "ReadManifestFailed")
    /\ UNCHANGED <<fs, fs0, dirs, arg>>

\* if !cli.input.exists() { bail!("Input file does not exist") }
MainInputExists(t) ==
    /\ MainThread(t)
    /\ pc[t] = "m_input_exists"
    /\ IF arg[t].cli.input_exists
       THEN /\ loc' = [loc EXCEPT ![t].io = @ \cup {"stat_input"}]
            /\ pc' = [pc EXCEPT ![t] = "m_output_path"]
       ELSE MainFail(t, "InputMissing")
    /\ UNCHANGED <<fs, fs0, dirs, arg>>

\* determine_output_path: a directory output takes the input's file name
\* (an input without one is an error), any other output is the path itself;
\* "none" for the Err
determine_output_path(input, output) ==
    IF DirExists(output)
    THEN IF HasFileName(input)
         THEN [ok |-> TRUE, path |-> join(output, file_name(input))]
         ELSE [ok |-> FALSE, path |-> <<>>]
    ELSE [ok |-> TRUE, path |-> output]

\* let output_path = determine_output_path(&cli.input, &cli.output)?
MainOutputPath(t) ==
    /\ MainThread(t)
    /\ pc[t] = "m_output_path"
    /\ LET r == determine_output_path(arg[t].cli.input, arg[t].cli.output)
       IN  IF r.ok
           THEN /\ loc' = [loc EXCEPT ![t].output_path = r.path,
                                      ![t].io = @ \cup {"stat_output"}]
                /\ pc' = [pc EXCEPT ![t] = "m_create_dir"]
           ELSE MainFail(t, "NoFilename")
    /\ UNCHANGED <<fs, fs0, dirs, arg>>

\* if let Some(parent) = output_path.parent() { fs::create_dir_all(parent)
\* .context(..)? }: a parent in place is left alone, a missing one is
\* created unless the call fails
MainCreateDir(t) ==
    /\ MainThread(t)
    /\ pc[t] = "m_create_dir"
    /\ LET p == parent(loc[t].output_path)
       IN  IF ~HasParent(loc[t].output_path) \/ DirExists(p)
           THEN /\ pc' = [pc EXCEPT ![t] = "m_parse_alg"]
                /\ UNCHANGED <<dirs, loc>>
           ELSE \E created \in BOOLEAN :
                  IF created
                  THEN /\ dirs' = dirs \cup {p}
                       /\ loc' = [loc EXCEPT ![t].io = @ \cup {"create_dir_all"}]
                       /\ pc' = [pc EXCEPT ![t] = "m_parse_alg"]
                  ELSE /\ MainFail(t, "CreateDirFailed")
                       /\ UNCHANGED dirs
    /\ UNCHANGED <<fs, fs0, arg>>

\* let signing_alg = parse_signing_algorithm(&cli.algorithm)?
MainParseAlgorithm(t) ==
    /\ MainThread(t)
    /\ pc[t] = "m_parse_alg"
    /\ LET r == parse_signing_algorithm(arg[t].cli.algorithm)
       IN  IF r.ok
           THEN /\ loc' = [loc EXCEPT ![t].signing_alg = r.alg]
                /\ pc' = [pc EXCEPT ![t] = "m_from_json"]
           ELSE MainFail(t, "UnsupportedAlgorithm")
    /\ UNCHANGED <<fs, fs0, dirs, arg>>

\* let mut builder = Builder::from_json(&manifest_json).context(..)?
MainFromJson(t) ==
    /\ MainThread(t)
    /\ pc[t] = "m_from_json"
    /\ LET m == arg[t].cli.manifest
       IN  IF m.json_ok /\ m.def_ok
           THEN /\ loc' = [loc EXCEPT ![t].builder = BuilderFromJson(m)]
                /\ pc' = [pc EXCEPT ![t] = "m_create_signer"]
           ELSE MainFail(t, "FromJsonFailed")
    /\ UNCHANGED <<fs, fs0, dirs, arg>>

\* create_signer::from_files(cert, key, signing_alg, None): the files are
\* read; a certificate or key that cannot be loaded fails, and one that can
\* may still not fit the algorithm
SignerOutcomes(c) ==
    IF c.cert_ok /\ c.key_ok THEN {"ok", "fail"} ELSE {"fail"}

\* let signer = create_signer::from_files(..).context("Failed to create signer")?
MainCreateSigner(t) ==
    /\ MainThread(t)
    /\ pc[t] = "m_create_signer"
    /\ \E o \in SignerOutcomes(arg[t].cli) :
         IF o = "ok"
         THEN /\ loc' = [loc EXCEPT ![t].io = @ \cup {"read_cert", "read_key"}]
              /\ pc' = [pc EXCEPT ![t] = "m_sign_file"]
         ELSE /\ loc' = [loc EXCEPT ![t].io = @ \cup {"read_cert"},
                                    ![t].result = "CreateSignerFailed"]
              /\ pc' = [pc EXCEPT ![t] = "done"]
    /\ UNCHANGED <<fs, fs0, dirs, arg>>

\* builder.sign_file(&*signer, &cli.input, &output_path).context(..)?; the
\* success message; Ok(())
MainSignFile(t) ==
    /\ MainThread(t)
    /\ pc[t] = "m_sign_file"
    /\ LET out == loc[t].output_path
           signable == arg[t].cli.input_exists /\ HasFileName(arg[t].cli.input)
       IN  \E o \in SignOutcomes(signable, fs[out]) :
             /\ fs' = [fs EXCEPT ![out] = SignEntry(o, @, t, 1, loc[t].builder)]
             /\ loc' = [loc EXCEPT ![t].sign_calls = @ + 1,
                                   ![t].io = @ \cup {"sign_file"},
                                   ![t].result = IF o = "ok" THEN "Ok" ELSE "SignFailed",
                                   ![t].printed = (o = "ok")]
    /\ pc' = [pc EXCEPT ![t] = "done"]
    /\ UNCHANGED <<fs0, dirs, arg>>

\* ------------------------------------------------------------ one CLI run

UpperAt(s, k) == [i \in 1..Len(s) |-> IF i = k THEN ToUpperChar(s[i]) ELSE s[i]]

AlgorithmNames == {S_es256, S_es384, S_es512, S_ps256, S_ps384, S_ps512, S_ed25519}

\* the --algorithm values drawn as inputs: the seven names in several
\* spellings, and strings that are none of them
AlgorithmInputs ==
    AlgorithmNames
    \cup { to_uppercase(n) : n \in AlgorithmNames }
    \cup { Capitalize(n) : n \in AlgorithmNames }
    \cup { UpperAt(n, 2) : n \in AlgorithmNames }
    \cup { <<>>, <<"e","s","2","5","5">>, <<"r","s","2","5","6">>, <<"R","S","2","5","6">>, <<"e","s","2","5","6"," ">>, <<"e","s","2","5","6","6">>,
           <<"e","s","2","5">>, <<"e","d","4","4","8">>, <<"E","S","-","2","5","6">>, <<"s","h","a","2","5","6">> }

CliInput == <<"/","t","/","D","o","g",".","j","p","g">>
CliNoInput == <<"/","t","/","n","o","n","e",".","j","p","g">>
CliDotDot == <<"/","t","/",".",".">>
OutFile == <<"/","o","/","o","u","t",".","j","p","g">>
OutDir == <<"/","d">>

CliPaths == {OutFile, OutDir, join(OutDir, file_name(CliInput))}

\* what is on disk before the run: nothing; the output's directory; an
\* earlier output; the output argument a directory, empty or not
CliDisks ==
    { [fs |-> [p \in CliPaths |-> AbsentEntry], dirs |-> {}],
      [fs |-> [p \in CliPaths |-> AbsentEntry], dirs |-> {parent(OutFile)}],
      [fs |-> [p \in CliPaths |-> IF p = OutFile THEN OldSignedEntry ELSE AbsentEntry],
       dirs |-> {parent(OutFile)}],
      [fs |-> [p \in CliPaths |-> IF p = OutDir THEN DirEntry ELSE AbsentEntry],
       dirs |-> {}],
      [fs |-> [p \in CliPaths |-> IF p = OutDir THEN DirEntry ELSE AssetEntry],
       dirs |-> {parent(OutFile)}] }

CliManifests ==
    { MissingManifest, NotJsonManifest, RejectedManifest }
    \cup { ManifestFile(TRUE, TRUE, TRUE, "T", a, FALSE, <<>>) : a \in AssertionSeqs }
    \cup { ManifestFile(TRUE, TRUE, TRUE, "T", <<"c2pa.asset-type">>, TRUE, s) :
             s \in DefSeqs(1) }

CliInputs == { [path |-> CliInput, exists |-> TRUE],
               [path |-> CliNoInput, exists |-> FALSE],
               [path |-> CliDotDot, exists |-> TRUE] }

Init ==
    /\ \E m \in CliManifests, i \in CliInputs, o \in {OutFile, OutDir},
          ck \in {<<TRUE, TRUE>>, <<FALSE, TRUE>>, <<TRUE, FALSE>>},
          a \in AlgorithmInputs, d \in CliDisks :
         /\ arg = [t \in Threads |->
                     IF t = 1
                     THEN [kind |-> "main", jobs |-> <<>>,
                           cli |-> Cli(m, i.path, i.exists, o, ck[1], ck[2], a)]
                     ELSE OffArg]
         /\ fs = d.fs
         /\ dirs = d.dirs
    /\ fs0 = fs
    /\ pc = [t \in Threads |-> IF t = 1 THEN "m_read_manifest" ELSE "off"]
    /\ loc = [t \in Threads |-> InitLoc]

Next ==
    \E t \in Threads :
        \/ MainReadManifest(t)
        \/ MainInputExists(t)
        \/ MainOutputPath(t)
        \/ MainCreateDir(t)
        \/ MainParseAlgorithm(t)
        \/ MainFromJson(t)
        \/ MainCreateSigner(t)
        \/ MainSignFile(t)

\* one run of the command-line tool
Spec == Init /\ [][Next]_vars

\* ------------------------------------------- tests/integration_tests.rs

\* Most combinations of the batch test that a run follows (the batch goes
\* through them in order).
MaxBatchJobs == 4

\* env!("CARGO_MANIFEST_DIR") and the directories under it
ManifestDir == <<"/","w">>
testfiles_dir == join(ManifestDir, <<"t","e","s","t","f","i","l","e","s">>)
manifests_dir == join(ManifestDir, <<"e","x","a","m","p","l","e","s">>)
output_dir == join(ManifestDir, <<"t","a","r","g","e","t","/","t","e","s","t","_","o","u","t","p","u","t">>)

\* get_test_images
get_test_images ==
    << join(testfiles_dir, <<"D","o","g",".","j","p","g">>),
       join(testfiles_dir, <<"D","o","g",".","p","n","g">>),
       join(testfiles_dir, <<"D","o","g",".","w","e","b","p">>) >>

\* generate_output_name: output_dir()/{stem}_{manifest_type}.{ext}
generate_output_name(input, manifest_type) ==
    join(output_dir, file_stem(input) \o <<"_">> \o manifest_type \o <<".">> \o extension(input))

\* the example manifests the tests sign with, by manifest type: the title
\* each test expects back, and the assertion it looks for
ExampleManifests ==
    << [type |-> <<"s","i","m","p","l","e">>,
        file |-> ManifestFile(TRUE, TRUE, TRUE, "Example Image with C2PA Manifest",
                              <<>>, FALSE, <<>>)],
       [type |-> <<"f","u","l","l">>,
        file |-> ManifestFile(TRUE, TRUE, TRUE, "Edited Photo with Complete Metadata",
                              <<"c2pa.actions">>, FALSE, <<>>)],
       [type |-> <<"a","s","s","e","t","_","r","e","f">>,
        file |-> ManifestFile(TRUE, TRUE, TRUE, "Image with Asset Reference",
                              <<"c2pa.asset-ref">>, FALSE, <<>>)],
       [type |-> <<"a","s","s","e","t","_","t","y","p","e">>,
        file |-> ManifestFile(TRUE, TRUE, TRUE, "Image with Asset Type Information",
                              <<"c2pa.asset-type">>, FALSE, <<>>)] >>

\* sign_file_with_manifest(&input, &output, &manifest) of image i with
\* example manifest k, output named by generate_output_name
TestJob(i, k) ==
    Job(ExampleManifests[k].file, get_test_images[i], TRUE,
        generate_output_name(get_test_images[i], ExampleManifests[k].type),
        FALSE, BaseDir)

\* test_all_images_all_manifests: for input in get_test_images() { for
\* (manifest_type, manifest_path) in &manifests { .. } }
BatchJobs ==
    LET n == Len(ExampleManifests)
        all == [x \in 1..(Len(get_test_images) * n) |->
                  TestJob(((x - 1) \div n) + 1, ((x - 1) % n) + 1)]
    IN  SubSeq(all, 1, IF MaxBatchJobs < Len(all) THEN MaxBatchJobs ELSE Len(all))

\* test_dog_<image>_<manifest>_manifest: one combination each
SingleTests ==
    { << TestJob(i, k) >> : i \in 1..Len(get_test_images), k \in 1..Len(ExampleManifests) }

TestOutputs ==
    { generate_output_name(get_test_images[i], ExampleManifests[k].type) :
        i \in 1..Len(get_test_images), k \in 1..Len(ExampleManifests) }

\* The test binary runs test_all_images_all_manifests on one thread and one
\* of the single-combination tests on another; target/test_output is empty,
\* or holds the outputs of an earlier run.
InitTests ==
    /\ \E single \in SingleTests, e0 \in {AbsentEntry, OldSignedEntry} :
         /\ arg = [t \in Threads |->
                     [kind |-> "test",
                      jobs |-> IF t = 1 THEN BatchJobs ELSE single,
                      cli |-> NoCli]]
         /\ fs = [p \in TestOutputs |-> e0]
    /\ fs0 = fs
    /\ dirs = {output_dir}
    /\ pc = [t \in Threads |-> "h_remove"]
    /\ loc = [t \in Threads |-> InitLoc]

NextTests ==
    \E t \in Threads :
        \/ RemoveOutput(t)
        \/ ReadManifest(t)
        \/ FromJson(t)
        \/ SignFile(t)
        \/ VerifySignedFile(t)
        \/ NextJob(t)

\* two tests of the integration test binary running at the same time
SpecTests == InitTests /\ [][NextTests]_vars

\* C9: concurrent sign-then-verify sequences do not touch each other's
\* output: what verify_signed_file reads is the file the sign step of its
\* own sequence wrote.
C9_VerifyReadsOwnOutput ==
    \A t \in Threads :
        ( TestThread(t) /\ loc[t].verify # "none" )
        => loc[t].seen = Entry("signed", t, loc[t].j, ManifestOf(loc[t].builder))

\* C4: for every test image and example manifest, a sign_file_with_manifest
\* that succeeded is followed by a verify_signed_file on its output that
\* succeeds.
C4_SignedOutputVerifies ==
    \A t \in Threads :
        ( JobOver(t) /\ loc[t].result = "Ok" ) => loc[t].verify = "Ok"

\* ------------------------------------------------ the claims on the CLI run

\* C1: an unrecognized algorithm name is rejected before any file I/O: when
\* the run fails on the algorithm name, no file has been read and no
\* directory or file has been created.
C1_AlgorithmRejectedBeforeIO ==
    \A t \in Threads :
        ( MainThread(t) /\ loc[t].result = "UnsupportedAlgorithm" )
        => loc[t].io = {} /\ ~loc[t].have_json

\* the configuration a run signs with
CurManifest(t) == IF MainThread(t) THEN arg[t].cli.manifest ELSE CurJob(t).manifest

\* C7: on every signing path each entry of ingredients_from_files has been
\* resolved and added to the builder by the time sign_file is invoked.
C7_DeclaredIngredientsSigned ==
    \A t \in Threads :
        ( pc[t] \in {"m_sign_file", "h_sign"} \/ loc[t].sign_calls > 0 )
        => Len(loc[t].builder.ingredients) = Len(CurManifest(t).iff)

\* C8: if creating the signer fails or the sign step fails, the run ends
\* with an error and nothing has been written at the output path: it holds
\* what it held when the run began.
C8_CryptoFailureWritesNothing ==
    \A t \in Threads :
        ( MainThread(t) /\ loc[t].result \in {"CreateSignerFailed", "SignFailed"} )
        => /\ pc[t] = "done"
           /\ ~loc[t].printed
           /\ fs[loc[t].output_path] = fs0[loc[t].output_path]

\* a and n are the same string but for the case of their letters
EqualsIgnoreCase(a, n) ==
    /\ Len(a) = Len(n)
    /\ \A i \in 1..Len(a) :
          \/ a[i] = n[i]
          \/ \E k \in 1..26 : {a[i], n[i]} = {UpperChars[k], LowerChars[k]}

\* the closed set of algorithm names, each with the algorithm of its name
AlgorithmTable ==
    { [name |-> S_es256, alg |-> "Es256"], [name |-> S_es384, alg |-> "Es384"],
      [name |-> S_es512, alg |-> "Es512"], [name |-> S_ps256, alg |-> "Ps256"],
      [name |-> S_ps384, alg |-> "Ps384"], [name |-> S_ps512, alg |-> "Ps512"],
      [name |-> S_ed25519, alg |-> "Ed25519"] }

Named(a) == { e \in AlgorithmTable : EqualsIgnoreCase(a, e.name) }

\* the errors of the steps main takes before it parses the algorithm
FailuresBeforeParse == {"ReadManifestFailed", "InputMissing", "NoFilename", "CreateDirFailed"}

\* C10: parse_signing_algorithm accepts exactly es256, es384, es512, ps256,
\* ps384, ps512 and ed25519, whatever the case of their letters, each as the
\* algorithm of its name, and returns an error for every other string.
C10_ClosedAlgorithmSet ==
    \A t \in Threads :
        MainThread(t) =>
            LET a == arg[t].cli.algorithm
            IN  /\ pc[t] \in {"m_from_json", "m_create_signer", "m_sign_file"}
                     => loc[t].signing_alg # "none"
                /\ loc[t].signing_alg # "none"
                     => \E e \in Named(a) : loc[t].signing_alg = e.alg
                /\ loc[t].result = "UnsupportedAlgorithm" => Named(a) = {}
                /\ ( pc[t] = "done" /\ loc[t].result \notin FailuresBeforeParse /\ Named(a) = {} )
                     => loc[t].result = "UnsupportedAlgorithm"

\* C10's case: a name written in capitals was accepted as its algorithm
C10_Witness ==
    /\ MainThread(1)
    /\ arg[1].cli.algorithm = to_uppercase(S_ed25519)
    /\ loc[1].signing_alg = "Ed25519"
    /\ pc[1] = "m_from_json"

\* ------------------------------------------- the claims on ingredient files

\* the extension-to-format table, as the specification writes it
MimeTable ==
    { [ext |-> <<"j","p","g">>, mime |-> "image/jpeg"], [ext |-> <<"j","p","e","g">>, mime |-> "image/jpeg"],
      [ext |-> <<"p","n","g">>, mime |-> "image/png"], [ext |-> <<"g","i","f">>, mime |-> "image/gif"],
      [ext |-> <<"w","e","b","p">>, mime |-> "image/webp"], [ext |-> <<"t","i","f","f">>, mime |-> "image/tiff"],
      [ext |-> <<"t","i","f">>, mime |-> "image/tiff"], [ext |-> <<"b","m","p">>, mime |-> "image/bmp"] }

\* the rows of the table for the extension of path p, whatever the case of
\* its letters; none when p has no extension
TableRows(p) ==
    IF HasExtension(p)
    THEN { e \in MimeTable : EqualsIgnoreCase(extension(p), e.ext) }
    ELSE {}

\* a declaration whose file is there, with an extension that is not in the
\* table, or with none
UndetectableFormat(d, base) ==
    /\ d.has_path
    /\ IngredientExists(AttemptedPath(d, base))
    /\ TableRows(AttemptedPath(d, base)) = {}

\* C11: the format of every ingredient added to the builder is the one the
\* table jpg/jpeg, png, gif, webp, tiff/tif, bmp gives to the extension of
\* its file; a declaration whose file has any other extension, or none, is
\* never added and makes the call fail: sign_file is not invoked, and when no
\* earlier declaration fails and the file opens the error is the
\* unsupported-format error, or the no-extension error.
C11_FormatFromExtensionTable ==
    \A t \in Threads :
        ( TestThread(t) /\ DeclaresIngredients(CurJob(t)) )
        => LET defs == CurJob(t).manifest.iff
               base == CurJob(t).base
               U == { i \in 1..Len(defs) : UndetectableFormat(defs[i], base) }
           IN  /\ \A k \in 1..Len(loc[t].builder.ingredients) :
                     LET g == loc[t].builder.ingredients[k]
                     IN  /\ TableRows(g.source) # {}
                         /\ \A e \in TableRows(g.source) : g.format = e.mime
                         /\ g.source = AttemptedPath(defs[k], base)
               /\ U # {} =>
                    /\ loc[t].sign_calls = 0
                    /\ pc[t] \notin {"h_sign", "t_verify"}
                    /\ Len(loc[t].builder.ingredients) < Min(U)
                    /\ (JobOver(t) => IsError(loc[t].result))
                    /\ ( /\ JobOver(t)
                         /\ loc[t].builder.made
                         /\ \A i \in 1..(Min(U) - 1) : Resolves(defs[i], base)
                         /\ IngredientFileAt(AttemptedPath(defs[Min(U)], base)).readable )
                       => /\ loc[t].result =
                               IF HasExtension(AttemptedPath(defs[Min(U)], base))
                               THEN "UnsupportedFormat" ELSE "NoExtension"
                          /\ loc[t].err_path = AttemptedPath(defs[Min(U)], base)

\* C11's case: the first declaration's file b.PNG was added as image/png, the
\* second's file c.xyz ended the call with the unsupported-format error
C11_Witness ==
    /\ JobOver(1)
    /\ DeclaresIngredients(CurJob(1))
    /\ Len(loc[1].builder.ingredients) = 1
    /\ extension(loc[1].builder.ingredients[1].source) = <<"P","N","G">>
    /\ loc[1].builder.ingredients[1].format = "image/png"
    /\ loc[1].resolved = <<1, 2>>
    /\ extension(AttemptedPath(CurJob(1).manifest.iff[2], CurJob(1).base)) = <<"x","y","z">>
    /\ loc[1].result = "UnsupportedFormat"
    /\ loc[1].sign_calls = 0

\* ------------------------------------------------- the exit of a CLI run

\* the status the process exits with when main returns: 0 for Ok(()), 1 for
\* an Err (the error is printed to stderr)
exit_code(t) == IF loc[t].result = "Ok" THEN 0 ELSE 1

\* the errors of the steps of main, in the order main takes the steps
MainSteps ==
    << "ReadManifestFailed", "InputMissing", "NoFilename", "CreateDirFailed",
       "UnsupportedAlgorithm", "FromJsonFailed", "CreateSignerFailed", "SignFailed" >>

\* what step k of main leaves behind when it runs (for create_dir_all, when
\* it had a directory to create)
StepMark(t, k) ==
    CASE k = 1 -> loc[t].have_json
      [] k = 2 -> "stat_input" \in loc[t].io
      [] k = 3 -> "stat_output" \in loc[t].io
      [] k = 4 -> "create_dir_all" \in loc[t].io
      [] k = 5 -> loc[t].signing_alg # "none"
      [] k = 6 -> loc[t].builder.made
      [] k = 7 -> "read_cert" \in loc[t].io
      [] k = 8 -> loc[t].sign_calls > 0

\* every step of the run succeeded
AllStepsSucceeded(t) ==
    /\ \A k \in 1..Len(MainSteps) : k # 4 => StepMark(t, k)
    /\ ~HasParent(loc[t].output_path) \/ DirExists(parent(loc[t].output_path))
    /\ "read_key" \in loc[t].io
    /\ fs[loc[t].output_path] = Entry("signed", t, 1, ManifestOf(loc[t].builder))

\* what the run was given lets every step but the last two succeed
InputsAllowSuccess(c) ==
    /\ c.manifest.exists /\ c.manifest.json_ok /\ c.manifest.def_ok
    /\ c.input_exists
    /\ determine_output_path(c.input, c.output).ok
    /\ Named(c.algorithm) # {}
    /\ c.cert_ok /\ c.key_ok

\* C12: a finished CLI run exits with 0 exactly when every step succeeded;
\* a run that ends with the error of step k has run every step before k, no
\* step after it, has not printed the success message and exits non-zero.
C12_ExitZeroIffAllStepsSucceeded ==
    \A t \in Threads :
        MainThread(t) =>
            /\ loc[t].printed => (pc[t] = "done" /\ loc[t].result = "Ok")
            /\ pc[t] # "done" => loc[t].result = "running"
            /\ pc[t] = "done" =>
                 /\ loc[t].result = "Ok" \/ \E k \in 1..Len(MainSteps) : loc[t].result = MainSteps[k]
                 /\ exit_code(t) = 0 <=> AllStepsSucceeded(t)
                 /\ exit_code(t) = 0 => (loc[t].printed /\ InputsAllowSuccess(arg[t].cli))
                 /\ ~InputsAllowSuccess(arg[t].cli) => exit_code(t) # 0
                 /\ \A k \in 1..Len(MainSteps) :
                       loc[t].result = MainSteps[k] =>
                          /\ exit_code(t) # 0
                          /\ ~loc[t].printed
                          /\ \A j \in 1..(k - 1) : j # 4 => StepMark(t, j)
                          /\ \A j \in (k + 1)..Len(MainSteps) : ~StepMark(t, j)
                          /\ k < Len(MainSteps) => fs = fs0

\* C12's case: the run created the output directory and parsed the
\* algorithm, then Builder::from_json failed: it ended there, non-zero
C12_Witness ==
    /\ MainThread(1)
    /\ pc[1] = "done"
    /\ loc[1].result = "FromJsonFailed"
    /\ "create_dir_all" \in loc[1].io
    /\ loc[1].signing_alg # "none"
    /\ "read_cert" \notin loc[1].io
    /\ exit_code(1) = 1

\* ------------------------------------------------------- one signing run

\* one signing run: the command-line tool, or one call of a signing helper
InitSigning == Init \/ InitHelper

NextSigning == Next \/ NextHelper

SpecSigning == InitSigning /\ [][NextSigning]_vars

\* the run of thread t has ended
RunOver(t) == (MainThread(t) /\ pc[t] = "done") \/ JobOver(t)

\* every step a run takes before sign_file has succeeded
EarlierStepsSucceeded(t) ==
    IF MainThread(t)
    THEN /\ \A k \in 1..7 : k # 4 => StepMark(t, k)
         /\ "read_key" \in loc[t].io
    ELSE /\ TestThread(t)
         /\ loc[t].have_json
         /\ loc[t].builder.made
         /\ DeclaresIngredients(CurJob(t)) =>
               /\ Len(loc[t].builder.ingredients) = Len(CurJob(t).manifest.iff)
               /\ \A i \in 1..Len(CurJob(t).manifest.iff) :
                     Resolves(CurJob(t).manifest.iff[i], CurJob(t).base)

\* the output path the run signs to
RunOutput(t) == IF MainThread(t) THEN loc[t].output_path ELSE CurJob(t).out

MaxKeyLen == 50

\* &pem.contents()[16..]: the bytes skipped before the key
KeyPrefixLen == 16

\* ed25519_dalek::SECRET_KEY_LENGTH: the length SigningKey::try_from accepts
SECRET_KEY_LENGTH == 32

EdThread(t) == arg[t].kind = "ed_sign"

\* the bytes a PEM block decodes to: n bytes, byte i being i * a + b
KeyContents(n, a, b) == [i \in 1..n |-> (i * a + b) % 256]

\* private_key: whether pem::parse accepts it, and the content it decodes to
PrivateKeys ==
    { [pem_ok |-> ok, contents |-> KeyContents(n, a, b)] :
        ok \in BOOLEAN, n \in 0..MaxKeyLen, a \in {1, 7}, b \in {0, 3} }

\* data: the bytes to sign
EdData == { <<>>, <<1, 2, 3>> }

NoSignature == [key |-> <<>>, data |-> <<>>]

\* the locals of ed_sign at its start
InitEdLoc ==
    [pem |-> <<>>, key_bytes |-> <<>>, signing_key |-> <<>>,
     signature |-> NoSignature, result |-> "running"]

\* let pem = parse(private_key).map_err(|e| c2pa::Error::OtherError(..))?
EdParsePem(t) ==
    /\ EdThread(t)
    /\ pc[t] = "e_parse"
    /\ IF arg[t].private_key.pem_ok
       THEN /\ loc' = [loc EXCEPT ![t].pem = arg[t].private_key.contents]
            /\ pc' = [pc EXCEPT ![t] = "e_slice"]
       ELSE /\ loc' = [loc EXCEPT ![t].result = "Err(OtherError)"]
            /\ pc' = [pc EXCEPT ![t] = "done"]
    /\ UNCHANGED <<fs, fs0, dirs, arg>>

\* let key_bytes = &pem.contents()[16..]: the range start is checked against
\* the length of the slice, and a start past the end panics
EdSliceKey(t) ==
    /\ EdThread(t)
    /\ pc[t] = "e_slice"
    /\ IF KeyPrefixLen > Len(loc[t].pem)
       THEN /\ loc' = [loc EXCEPT ![t].result = "panic"]
            /\ pc' = [pc EXCEPT ![t] = "done"]
       ELSE /\ loc' = [loc EXCEPT ![t].key_bytes =
                         SubSeq(loc[t].pem, KeyPrefixLen + 1, Len(loc[t].pem))]
            /\ pc' = [pc EXCEPT ![t] = "e_try_from"]
    /\ UNCHANGED <<fs, fs0, dirs, arg>>

\* let signing_key = SigningKey::try_from(key_bytes).map_err(|e|
\* RawSignerError::InternalError(..))?: a slice of any length but 32 is an
\* error
EdSigningKeyTryFrom(t) ==
    /\ EdThread(t)
    /\ pc[t] = "e_try_from"
    /\ IF Len(loc[t].key_bytes) = SECRET_KEY_LENGTH
       THEN /\ loc' = [loc EXCEPT ![t].signing_key = loc[t].key_bytes]
            /\ pc' = [pc EXCEPT ![t] = "e_sign"]
       ELSE /\ loc' = [loc EXCEPT ![t].result = "Err(InternalError)"]
            /\ pc' = [pc EXCEPT ![t] = "done"]
    /\ UNCHANGED <<fs, fs0, dirs, arg>>

\* let signature = signing_key.sign(data); Ok(signature.to_bytes().to_vec()):
\* the signature is determined by the key and the data
EdSignData(t) ==
    /\ EdThread(t)
    /\ pc[t] = "e_sign"
    /\ loc' = [loc EXCEPT ![t].signature = [key |-> loc[t].signing_key, data |-> arg[t].data],
                          ![t].result = "Ok"]
    /\ pc' = [pc EXCEPT ![t] = "done"]
    /\ UNCHANGED <<fs, fs0, dirs, arg>>

InitEdSign ==
    /\ \E k \in PrivateKeys, d \in EdData :
         arg = [t \in Threads |->
                  IF t = 1
                  THEN [kind |-> "ed_sign", jobs |-> <<>>, cli |-> NoCli,
                        data |-> d, private_key |-> k]
                  ELSE OffArg]
    /\ fs = [p \in {} |-> AbsentEntry]
    /\ fs0 = fs
    /\ dirs = {}
    /\ pc = [t \in Threads |-> IF t = 1 THEN "e_parse" ELSE "off"]
    /\ loc = [t \in Threads |-> IF t = 1 THEN InitEdLoc ELSE InitLoc]

NextEdSign ==
    \E t \in Threads :
        \/ EdParsePem(t)
        \/ EdSliceKey(t)
        \/ EdSigningKeyTryFrom(t)
        \/ EdSignData(t)

\* one call of ed_sign(data, private_key)
SpecEdSign == InitEdSign /\ [][NextEdSign]_vars

\* a key that decodes to a 16-byte prefix followed by a 32-byte seed
WellFormedKey(k) == k.pem_ok /\ Len(k.contents) = KeyPrefixLen + SECRET_KEY_LENGTH

\* C14: ed_sign never panics; a private key that does not decode to a
\* 16-byte prefix followed by a 32-byte seed yields an error value, and for a
\* well-formed key the signing key is the bytes that follow the first 16
\* bytes of the decoded content.
C14_EdSignMalformedKeyIsError ==
    \A t \in Threads :
        EdThread(t) =>
            /\ loc[t].result # "panic"
            /\ ( pc[t] = "done" /\ ~WellFormedKey(arg[t].private_key) )
                  => loc[t].result \in {"Err(OtherError)", "Err(InternalError)"}
            /\ ( pc[t] = "done" /\ WellFormedKey(arg[t].private_key) )
                  => /\ loc[t].result = "Ok"
                     /\ loc[t].signing_key =
                          [i \in 1..SECRET_KEY_LENGTH |->
                             arg[t].private_key.contents[KeyPrefixLen + i]]
                     /\ loc[t].signature = [key |-> loc[t].signing_key, data |-> arg[t].data]

\* --------------------------------------------- the path of a missing file

\* the path a declaration's file is looked for at: the declared file_path
\* itself when it begins at the root, otherwise under the base directory
ExpectedPath(d, base) ==
    IF Len(d.file_path) > 0 /\ d.file_path[1] = "/"
    THEN d.file_path
    ELSE base \o <<"/">> \o d.file_path

\* C15: when the call fails because an ingredient's file does not exist, the
\* error carries the path that was tried: the declared file_path under the
\* base directory when it is relative, the declared file_path unchanged when
\* it is absolute; and a first failing declaration whose file is missing at
\* that path gives this error.
C15_NotFoundCarriesAttemptedPath ==
    \A t \in Threads :
        ( TestThread(t) /\ DeclaresIngredients(CurJob(t)) )
        => LET defs == CurJob(t).manifest.iff
               base == CurJob(t).base
               F == Failing(defs, base)
           IN  /\ loc[t].result = "IngredientNotFound" =>
                    /\ loc[t].resolved # <<>>
                    /\ LET d == defs[loc[t].resolved[Len(loc[t].resolved)]]
                       IN  /\ d.has_path
                           /\ loc[t].err_path = ExpectedPath(d, base)
                           /\ ~IngredientExists(loc[t].err_path)
               /\ ( /\ JobOver(t)
                    /\ loc[t].builder.made
                    /\ F # {}
                    /\ defs[Min(F)].has_path
                    /\ ~IngredientExists(ExpectedPath(defs[Min(F)], base)) )
                  => /\ loc[t].result = "IngredientNotFound"
                     /\ loc[t].err_path = ExpectedPath(defs[Min(F)], base)

\* C15's case: the second declaration names gone.png, which is not under the
\* base directory /b; the error carries /b/gone.png
C15_Witness ==
    /\ JobOver(1)
    /\ DeclaresIngredients(CurJob(1))
    /\ Len(CurJob(1).manifest.iff) = 2
    /\ CurJob(1).manifest.iff[2].file_path = <<"g","o","n","e",".","p","n","g">>
    /\ CurJob(1).base = <<"/","b">>
    /\ loc[1].result = "IngredientNotFound"
    /\ loc[1].err_path = <<"/","b","/","g","o","n","e",".","p","n","g">>

\* ----------------------------- tests/common/mod.rs: extract_manifest_to_file

ExtractThread(t) == arg[t].kind = "extract"

ExtractIn == <<"/","t","/","D","o","g",".","j","p","g">>
ExtractOut == <<"/","m","/","D","o","g",".","j","s","o","n">>

\* the files input_path can name: none, a directory, an asset that was never
\* signed, what a failed sign_file left, and assets signed with the example
\* manifests or by an earlier run
ExtractInputs ==
    { AbsentEntry, DirEntry, AssetEntry, Entry("partial", 0, 0, NoManifest), OldSignedEntry }
    \cup { Entry("signed", 0, 0, ManifestOf(BuilderFromJson(ExampleManifests[k].file))) :
             k \in 1..Len(ExampleManifests) }

\* what is at output_path before the call: nothing, the manifest file of an
\* earlier call, a directory
ExtractOutputs == { AbsentEntry, Entry("json", 0, 0, OldSignedEntry.manifest), DirEntry }

\* Reader::from_file on what is at the path: no file or a directory is an
\* error; a signed asset gives a reader with an active label unless reading
\* fails; an asset without a manifest is an error, or gives a reader with no
\* active label
ReaderOutcomes(e) ==
    CASE e.kind \in {"absent", "dir"} -> {"err"}
      [] e.kind = "signed" -> {"active", "err"}
      [] OTHER -> {"err", "no_label"}

\* fs::write creates (or truncates) the file and writes the content: it
\* succeeds, fails before the file is created, or fails after
WriteOutcomes(e) ==
    IF e.kind = "dir" THEN {"fail_clean"} ELSE {"ok", "fail_clean", "fail_partial"}

\* the locals of extract_manifest_to_file at its start
InitExtractLoc ==
    [reader |-> "none", active_label |-> FALSE, manifest_json |-> NoManifest,
     opened |-> AbsentEntry, io |-> {}, result |-> "running"]

\* extract_manifest_to_file returns Err(e)
ExtractFail(t, e) ==
    /\ loc' = [loc EXCEPT ![t].result = e]
    /\ pc' = [pc EXCEPT ![t] = "done"]

\* if output_path.exists() { fs::remove_file(output_path)? }
ExtractRemoveOutput(t) ==
    /\ ExtractThread(t)
    /\ pc[t] = "x_remove"
    /\ LET out == arg[t].output_path
       IN  IF fs[out].kind = "absent"
           THEN /\ pc' = [pc EXCEPT ![t] = "x_open"]
                /\ UNCHANGED <<fs, loc>>
           ELSE \E o \in RemoveOutcomes(fs[out]) :
                  IF o = "ok"
                  THEN /\ fs' = [fs EXCEPT ![out] = AbsentEntry]
                       /\ loc' = [loc EXCEPT ![t].io = @ \cup {"remove_file"}]
                       /\ pc' = [pc EXCEPT ![t] = "x_open"]
                  ELSE /\ ExtractFail(t, "RemoveFailed")
                       /\ UNCHANGED fs
    /\ UNCHANGED <<fs0, dirs, arg>>

\* let reader = Reader::from_file(input_path)?
ExtractOpenReader(t) ==
    /\ ExtractThread(t)
    /\ pc[t] = "x_open"
    /\ LET e == fs[arg[t].input_path]
       IN  \E o \in ReaderOutcomes(e) :
             IF o = "err"
             THEN ExtractFail(t, "ReaderFailed")
             ELSE /\ loc' = [loc EXCEPT ![t].reader = o,
                                        ![t].opened = e,
                                        ![t].active_label = (o = "active"),
                                        ![t].io = @ \cup {"read_input"}]
                  /\ pc' = [pc EXCEPT ![t] = "x_label"]
    /\ UNCHANGED <<fs, fs0, dirs, arg>>

\* the label not asked for: reader.json() whatever the reader holds
ExtractActiveLabel_Unchecked(t) ==
    /\ ExtractThread(t)
    /\ pc[t] = "x_label"
    /\ loc' = [loc EXCEPT ![t].manifest_json = loc[t].opened.manifest]
    /\ pc' = [pc EXCEPT ![t] = "x_create_dir"]
    /\ UNCHANGED <<fs, fs0, dirs, arg>>

\* let _active_label = reader.active_label().ok_or_else(..)?; let
\* manifest_json = reader.json()
ExtractActiveLabel(t) ==
    /\ ExtractThread(t)
    /\ pc[t] = "x_label"
    /\ IF loc[t].active_label
       THEN /\ loc' = [loc EXCEPT ![t].manifest_json = loc[t].opened.manifest]
            /\ pc' = [pc EXCEPT ![t] = "x_create_dir"]
       ELSE ExtractFail(t, "NoActiveManifest")
    /\ UNCHANGED <<fs, fs0, dirs, arg>>

\* if let Some(parent) = output_path.parent() { fs::create_dir_all(parent)? }
ExtractCreateDir(t) ==
    /\ ExtractThread(t)
    /\ pc[t] = "x_create_dir"
    /\ LET p == parent(arg[t].output_path)
       IN  IF ~HasParent(arg[t].output_path) \/ DirExists(p)
           THEN /\ pc' = [pc EXCEPT ![t] = "x_write"]
                /\ UNCHANGED <<dirs, loc>>
           ELSE \E created \in BOOLEAN :
                  IF created
                  THEN /\ dirs' = dirs \cup {p}
                       /\ loc' = [loc EXCEPT ![t].io = @ \cup {"create_dir_all"}]
                       /\ pc' = [pc EXCEPT ![t] = "x_write"]
                  ELSE /\ ExtractFail(t, "CreateDirFailed")
                       /\ UNCHANGED dirs
    /\ UNCHANGED <<fs, fs0, arg>>

\* the JSON parsed and serialized again (the same value, indented);
\* fs::write(output_path, pretty_json)?; Ok(())
ExtractWrite(t) ==
    /\ ExtractThread(t)
    /\ pc[t] = "x_write"
    /\ LET out == arg[t].output_path
       IN  \E o \in WriteOutcomes(fs[out]) :
             /\ fs' = [fs EXCEPT ![out] =
                         CASE o = "ok" -> Entry("json", t, 1, loc[t].manifest_json)
                           [] o = "fail_partial" -> Entry("partial", t, 1, NoManifest)
                           [] OTHER -> @]
             /\ loc' = [loc EXCEPT ![t].io = @ \cup {"write"},
                                   ![t].result = IF o = "ok" THEN "Ok" ELSE "WriteFailed"]
    /\ pc' = [pc EXCEPT ![t] = "done"]
    /\ UNCHANGED <<fs0, dirs, arg>>

\* One call of extract_manifest_to_file(input_path, output_path); the output
\* path is a file of its own or the input itself, and its directory is there
\* or not.
InitExtract ==
    /\ \E i \in ExtractInputs, o \in ExtractOutputs, out \in {ExtractOut, ExtractIn},
          d \in {{}, {parent(ExtractOut)}} :
         /\ arg = [t \in Threads |->
                     IF t = 1
                     THEN [kind |-> "extract", jobs |-> <<>>, cli |-> NoCli,
                           input_path |-> ExtractIn, output_path |-> out]
                     ELSE OffArg]
         /\ fs = [p \in {ExtractIn, ExtractOut} |-> IF p = ExtractIn THEN i ELSE o]
         /\ dirs = d \cup {parent(ExtractIn)}
    /\ fs0 = fs
    /\ pc = [t \in Threads |-> IF t = 1 THEN "x_remove" ELSE "off"]
    /\ loc = [t \in Threads |-> IF t = 1 THEN InitExtractLoc ELSE InitLoc]

NextExtract ==
    \E t \in Threads :
        \/ ExtractRemoveOutput(t)
        \/ ExtractOpenReader(t)
        \/ ExtractActiveLabel(t)
        \/ ExtractCreateDir(t)
        \/ ExtractWrite(t)

SpecExtract == InitExtract /\ [][NextExtract]_vars

\* the asset at input_path when the call began was never signed
NeverEmbedded(t) == fs0[arg[t].input_path].kind # "signed"

\* the call has written at its output path (a whole file or part of one)
ExtractWrote(t) ==
    \/ "write" \in loc[t].io
    \/ \E p \in DOMAIN fs : fs[p].by = t

\* C16: for an asset that was never signed, extract_manifest_to_file returns
\* an error and writes nothing at its output path; it writes there only when
\* the reader it opened has an active manifest label, and then what it writes
\* is that asset's manifest.
C16_ExtractWritesOnlyWithActiveLabel ==
    \A t \in Threads :
        ExtractThread(t) =>
            /\ NeverEmbedded(t) =>
                 /\ ~ExtractWrote(t)
                 /\ pc[t] \notin {"x_create_dir", "x_write"}
                 /\ pc[t] = "done" =>
                      loc[t].result \in {"RemoveFailed", "ReaderFailed", "NoActiveManifest"}
            /\ ( pc[t] \in {"x_create_dir", "x_write"} \/ ExtractWrote(t) ) =>
                 /\ loc[t].reader = "active"
                 /\ loc[t].active_label
                 /\ loc[t].opened.kind = "signed"
            /\ \A p \in DOMAIN fs :
                 ( fs[p].by = t /\ fs[p].kind = "json" ) =>
                    /\ p = arg[t].output_path
                    /\ fs[p].manifest = fs0[arg[t].input_path].manifest
            /\ ( pc[t] = "done" /\ loc[t].result = "Ok" ) =>
                 fs[arg[t].output_path].kind = "json" /\ fs[arg[t].output_path].by = t

\* C16's case: the reader opened an unsigned asset and had no active label;
\* the call ended with the error, the old manifest file removed and no new
\* one written
C16_Witness ==
    /\ ExtractThread(1)
    /\ pc[1] = "done"
    /\ fs0[ExtractIn] = AssetEntry
    /\ loc[1].reader = "no_label"
    /\ loc[1].result = "NoActiveManifest"
    /\ fs0[ExtractOut].kind = "json"
    /\ fs[ExtractOut] = AbsentEntry
    /\ arg[1].output_path = ExtractOut

====
